---- MODULE Spec2Model ----
(***************************************************************************)
(* Model of the FastAPI credential service: src/app.py (the four handlers *)
(* /signup, /login, /me, /reset_email), src/deps.py (get_current_user)    *)
(* and src/database.py (the json_data table keyed by email).              *)
(*                                                                         *)
(* Every handler is an "async def" without an await in its body, so one   *)
(* handler runs to completion on the event loop before the next request   *)
(* is served: each handler is one action of Spec.  The table is a file,    *)
(* data.db, and every database function opens it and commits on its own,  *)
(* so several server processes can serve requests on one table: SpecWorkers*)
(* takes the handlers one database call at a time, and SpecCrash is one    *)
(* such process that may stop between two calls.                           *)
(***************************************************************************)
EXTENDS Integers, Sequences, FiniteSets, TLC

\* ---------------------------------------------------------------- bounds
MaxUuids == 2
MaxTime == 4
\* clock resolution: datetime.now() is finer than the whole seconds of "exp"
TicksPerSecond == 2

\* ---------------------------------------------------------- input values
Emails == {"alice@x.com", "alice2@x.com"}
Passwords == {"pw1", "pw2"}
\* the random salt bcrypt draws for one call of get_hashed_password
Salts == {"salt1"}

\* ------------------------------------------------------ program constants
HTTP_200_OK == 200
HTTP_400_BAD_REQUEST == 400
HTTP_401_UNAUTHORIZED == 401
HTTP_403_FORBIDDEN == 403
HTTP_404_NOT_FOUND == 404
HTTP_500_INTERNAL_SERVER_ERROR == 500

\* utils.ACCESS_TOKEN_EXPIRE / REFRESH_TOKEN_EXPIRE, in seconds: the access
\* token is the short-lived one, the refresh token the long-lived one
ACCESS_TOKEN_EXPIRE == 1
REFRESH_TOKEN_EXPIRE == 2

\* Python's None
None == [isNone |-> TRUE]

\* ------------------------------------------------------- src/database.py
\* the table json_data after create_table(): email (primary key) -> data
EmptyTable == [e \in {} |-> <<>>]

\* json.dumps of the user dict: the text of the three members, in key order
json_dumps(data) == <<data.email, data.password, data.id>>

\* json.loads of a stored row
json_loads(row) == [email |-> row[1], password |-> row[2], id |-> row[3]]

\* INSERT OR REPLACE INTO json_data (email, data) VALUES (?, ?)
insert_data(db, email, data) ==
    [e \in (DOMAIN db) \cup {email} |->
        IF e = email THEN json_dumps(data) ELSE db[e]]

\* SELECT data FROM json_data WHERE email = ?
get_data(db, email) ==
    IF email \in DOMAIN db THEN json_loads(db[email]) ELSE None

\* mutant: the DELETE is not committed
delete_data_not_committed(db, email) == db

\* DELETE FROM json_data WHERE email = ?
delete_data(db, email) ==
    [e \in (DOMAIN db) \ {email} |-> db[e]]

\* ------------------------------------------------------------ utils.py
\* salted one-way hash: the salt is embedded in the output
get_hashed_password(password, salt) == [salt |-> salt, digest |-> password]

verify_password(password, hashed_pass) == hashed_pass.digest = password

\* a signed token: the claims, whether the signature verifies under
\* JWT_SECRET_KEY over exactly these claims, and which claims are present
mint(subject, now, ttl) ==
    [sub |-> subject, exp |-> (now \div TicksPerSecond) + ttl,
     sig |-> "ok", claims |-> {"sub", "exp"}]

create_access_token(subject, now) == mint(subject, now, ACCESS_TOKEN_EXPIRE)

create_refresh_token(subject, now) == mint(subject, now, REFRESH_TOKEN_EXPIRE)

\* ----------------------------------------------------------- schemas.py
\* UserOut: the response model of /signup, /me and /reset_email
UserOutFields == {"email", "id"}

\* TokenPayload(**payload): ValidationError when a required claim is absent
TokenPayloadValid(payload) == {"sub", "exp"} \subseteq payload.claims

\* -------------------------------------------------------- HTTP boundary
\* an HTTPException raised by a handler
HTTPException(status_code, detail) ==
    [status |-> status_code, body |-> [detail |-> detail]]

\* mutant: the handler's dict is serialized as it is (no response_model)
UserOutResponse_unfiltered(user) ==
    [status |-> HTTP_200_OK, body |-> user]

\* response_model=UserOut: only the model's fields are serialized
UserOutResponse(user) ==
    [status |-> HTTP_200_OK, body |-> [k \in UserOutFields |-> user[k]]]

\* response_model=TokenSchema
TokenSchemaResponse(tokens) ==
    [status |-> HTTP_200_OK,
     body |-> [access_token |-> tokens.access_token,
               refresh_token |-> tokens.refresh_token]]

\* an exception no handler catches: the server answers 500
UnhandledError(name) ==
    [status |-> HTTP_500_INTERNAL_SERVER_ERROR,
     body |-> [detail |-> "Internal Server Error", error |-> name]]

\* -------------------------------------------------------------- app.py
\* mutant: no lookup before the insert, INSERT OR REPLACE overwrites the row
create_user_overwrites(db, email, password, salt, uuid) ==
    LET new == [email |-> email,
                password |-> get_hashed_password(password, salt),
                id |-> uuid] IN
    [resp |-> UserOutResponse(new),
     db |-> insert_data(db, email, new), ret |-> new]

\* create_user: the response and the table after the call
create_user(db, email, password, salt, uuid) ==
    LET user == get_data(db, email) IN
    IF user # None
    THEN [resp |-> HTTPException(HTTP_400_BAD_REQUEST,
                                 "User with this email already exists"),
          db |-> db, ret |-> None]
    ELSE LET new == [email |-> email,
                     password |-> get_hashed_password(password, salt),
                     id |-> uuid] IN
         [resp |-> UserOutResponse(new),
          db |-> insert_data(db, email, new), ret |-> new]

\* mutant: the refresh token is minted by create_access_token as well
login_same_tokens(db, username, password, now) ==
    LET user == get_data(db, username) IN
    IF user = None
    THEN HTTPException(HTTP_400_BAD_REQUEST, "Incorrect email or password")
    ELSE IF ~verify_password(password, user.password)
    THEN HTTPException(HTTP_400_BAD_REQUEST, "Incorrect email or password")
    ELSE TokenSchemaResponse(
            [access_token |-> create_access_token(user.email, now),
             refresh_token |-> create_access_token(user.email, now)])

\* mutant: an unknown email is reported with a message of its own
login_names_the_email(db, username, password, now) ==
    LET user == get_data(db, username) IN
    IF user = None
    THEN HTTPException(HTTP_400_BAD_REQUEST, "Unknown email")
    ELSE IF ~verify_password(password, user.password)
    THEN HTTPException(HTTP_400_BAD_REQUEST, "Incorrect email or password")
    ELSE TokenSchemaResponse(
            [access_token |-> create_access_token(user.email, now),
             refresh_token |-> create_refresh_token(user.email, now)])

\* login: the response (the table is not written)
login(db, username, password, now) ==
    LET user == get_data(db, username) IN
    IF user = None
    THEN HTTPException(HTTP_400_BAD_REQUEST, "Incorrect email or password")
    ELSE IF ~verify_password(password, user.password)
    THEN HTTPException(HTTP_400_BAD_REQUEST, "Incorrect email or password")
    ELSE TokenSchemaResponse(
            [access_token |-> create_access_token(user.email, now),
             refresh_token |-> create_refresh_token(user.email, now)])

\* mutant: the row under the previous email is not deleted
reset_email_keeps_old_row(db, email, new_email, password, new_password, salt) ==
    LET user == get_data(db, email) IN
    IF user = None
    THEN [resp |-> HTTPException(HTTP_400_BAD_REQUEST,
                                 "Incorrect email or password"),
          db |-> db, ret |-> None]
    ELSE IF ~verify_password(password, user.password)
    THEN [resp |-> HTTPException(HTTP_400_BAD_REQUEST,
                                 "Incorrect email or password"),
          db |-> db, ret |-> None]
    ELSE LET updated == [email |-> new_email,
                         password |-> get_hashed_password(new_password, salt),
                         id |-> user.id] IN
         [resp |-> UserOutResponse(updated),
          db |-> insert_data(db, new_email, updated),
          ret |-> updated]

\* mutant: user["email"] is not updated before the insert
reset_email_keeps_email_field(db, email, new_email, password, new_password, salt) ==
    LET user == get_data(db, email) IN
    IF user = None
    THEN [resp |-> HTTPException(HTTP_400_BAD_REQUEST,
                                 "Incorrect email or password"),
          db |-> db, ret |-> None]
    ELSE IF ~verify_password(password, user.password)
    THEN [resp |-> HTTPException(HTTP_400_BAD_REQUEST,
                                 "Incorrect email or password"),
          db |-> db, ret |-> None]
    ELSE LET updated == [email |-> user.email,
                         password |-> get_hashed_password(new_password, salt),
                         id |-> user.id] IN
         [resp |-> UserOutResponse(updated),
          db |-> insert_data(delete_data(db, email), new_email, updated),
          ret |-> updated]

\* mutant: a new_email that already has a row is refused
reset_email_checks_new_email(db, email, new_email, password, new_password, salt) ==
    LET user == get_data(db, email) IN
    IF user = None
    THEN [resp |-> HTTPException(HTTP_400_BAD_REQUEST,
                                 "Incorrect email or password"),
          db |-> db, ret |-> None]
    ELSE IF ~verify_password(password, user.password)
    THEN [resp |-> HTTPException(HTTP_400_BAD_REQUEST,
                                 "Incorrect email or password"),
          db |-> db, ret |-> None]
    ELSE IF new_email # email /\ get_data(db, new_email) # None
    THEN [resp |-> HTTPException(HTTP_400_BAD_REQUEST,
                                 "User with this email already exists"),
          db |-> db, ret |-> None]
    ELSE LET updated == [email |-> new_email,
                         password |-> get_hashed_password(new_password, salt),
                         id |-> user.id] IN
         [resp |-> UserOutResponse(updated),
          db |-> insert_data(delete_data(db, email), new_email, updated),
          ret |-> updated]

\* mutant: the password of the row is left as it was
reset_email_keeps_password(db, email, new_email, password, new_password, salt) ==
    LET user == get_data(db, email) IN
    IF user = None
    THEN [resp |-> HTTPException(HTTP_400_BAD_REQUEST,
                                 "Incorrect email or password"),
          db |-> db, ret |-> None]
    ELSE IF ~verify_password(password, user.password)
    THEN [resp |-> HTTPException(HTTP_400_BAD_REQUEST,
                                 "Incorrect email or password"),
          db |-> db, ret |-> None]
    ELSE LET updated == [email |-> new_email,
                         password |-> user.password,
                         id |-> user.id] IN
         [resp |-> UserOutResponse(updated),
          db |-> insert_data(delete_data(db, email), new_email, updated),
          ret |-> updated]

\* mutant: the old row is deleted before the password is verified
reset_email_deletes_first(db, email, new_email, password, new_password, salt) ==
    LET user == get_data(db, email) IN
    IF user = None
    THEN [resp |-> HTTPException(HTTP_400_BAD_REQUEST,
                                 "Incorrect email or password"),
          db |-> db, ret |-> None]
    ELSE IF ~verify_password(password, user.password)
    THEN [resp |-> HTTPException(HTTP_400_BAD_REQUEST,
                                 "Incorrect email or password"),
          db |-> delete_data(db, email), ret |-> None]
    ELSE LET updated == [email |-> new_email,
                         password |-> get_hashed_password(new_password, salt),
                         id |-> user.id] IN
         [resp |-> UserOutResponse(updated),
          db |-> insert_data(delete_data(db, email), new_email, updated),
          ret |-> updated]

\* reset_email: the response and the table after the call
reset_email(db, email, new_email, password, new_password, salt) ==
    LET user == get_data(db, email) IN
    IF user = None
    THEN [resp |-> HTTPException(HTTP_400_BAD_REQUEST,
                                 "Incorrect email or password"),
          db |-> db, ret |-> None]
    ELSE IF ~verify_password(password, user.password)
    THEN [resp |-> HTTPException(HTTP_400_BAD_REQUEST,
                                 "Incorrect email or password"),
          db |-> db, ret |-> None]
    ELSE LET updated == [email |-> new_email,
                         password |-> get_hashed_password(new_password, salt),
                         id |-> user.id] IN
         [resp |-> UserOutResponse(updated),
          db |-> insert_data(delete_data(db, email), new_email, updated),
          ret |-> updated]

\* ------------------------------------------------------------- deps.py
\* jose's jwt.decode(token, JWT_SECRET_KEY, algorithms=[ALGORITHM]) at clock
\* reading now: the signature is verified first, then the registered claims;
\* "exp" is compared with the clock truncated to whole seconds, and an "exp"
\* before it raises ExpiredSignatureError, a subclass of JWTError
jwt_decode(token, now) ==
    IF token.sig # "ok"
    THEN [raised |-> "JWTError", payload |-> None]
    ELSE IF "exp" \in token.claims /\ token.exp < (now \div TicksPerSecond)
    THEN [raised |-> "ExpiredSignatureError", payload |-> None]
    ELSE [raised |-> "no", payload |-> token]

\* mutant: the except clause names ValidationError only
Caught_ValidationError_only(exc) == exc = "ValidationError"

\* the classes "except (jwt.JWTError, ValidationError)" catches
Caught(exc) == exc \in {"JWTError", "ExpiredSignatureError", "ValidationError"}

\* datetime.fromtimestamp(token_data.exp) < datetime.now()
token_expired(exp, now) == exp * TicksPerSecond < now

\* mutant: "db" is the json_data table, so the lookup of the subject succeeds
get_current_user_db_is_store(db, token, now) ==
    LET decoded == jwt_decode(token, now)
        exc == IF decoded.raised # "no" THEN decoded.raised
               ELSE IF ~TokenPayloadValid(decoded.payload) THEN "ValidationError"
               ELSE IF token_expired(decoded.payload.exp, now) THEN "HTTPException"
               ELSE "no"
        user == get_data(db, token.sub)
    IN
    IF exc = "no"
    THEN [resp |-> IF user = None
                   THEN HTTPException(HTTP_404_NOT_FOUND, "Could not find user")
                   ELSE UserOutResponse(user),
          lookup |-> TRUE]
    ELSE IF Caught(exc)
    THEN [resp |-> HTTPException(HTTP_403_FORBIDDEN,
                                 "Could not validate credentials"),
          lookup |-> FALSE]
    ELSE IF exc = "HTTPException"
    THEN [resp |-> HTTPException(HTTP_401_UNAUTHORIZED, "Token expired"),
          lookup |-> FALSE]
    ELSE [resp |-> UnhandledError(exc), lookup |-> FALSE]

\* get_current_user: the response, and whether the statement after the try
\* block (the lookup of token_data.sub) was reached.  deps.py neither defines
\* nor imports the name "db", so evaluating that statement raises NameError.
get_current_user(db, token, now) ==
    LET decoded == jwt_decode(token, now)
        exc == IF decoded.raised # "no" THEN decoded.raised
               ELSE IF ~TokenPayloadValid(decoded.payload) THEN "ValidationError"
               ELSE IF token_expired(decoded.payload.exp, now) THEN "HTTPException"
               ELSE "no"
    IN
    IF exc = "no"
    THEN [resp |-> UnhandledError("NameError"), lookup |-> TRUE]
    ELSE IF Caught(exc)
    THEN [resp |-> HTTPException(HTTP_403_FORBIDDEN,
                                 "Could not validate credentials"),
          lookup |-> FALSE]
    ELSE IF exc = "HTTPException"
    THEN [resp |-> HTTPException(HTTP_401_UNAUTHORIZED, "Token expired"),
          lookup |-> FALSE]
    ELSE [resp |-> UnhandledError(exc), lookup |-> FALSE]

\* ---------------------------------------------------------------- state
VARIABLES
    store,    \* the json_data table
    uuids,    \* how many uuid4() values have been drawn
    time,     \* the clock, in ticks
    held,     \* the token the client keeps from a login and the id of the
              \* user it was minted for, or NoToken
    signed,   \* email -> the password and id of its signup, until a reset
    last,     \* the request served at the current clock reading and its
              \* response, or NoRequest
    inflight  \* per server process: the request it is in the middle of and
              \* the handler's local variables, or Idle

vars == <<store, uuids, time, held, signed, last, inflight>>

\* the server processes that share data.db
Workers == {"w1", "w2"}

Idle == [op |-> "idle"]

NoToken == [isNone |-> TRUE]

NoRequest == [op |-> "none"]

\* the largest "exp" a token can carry
MaxExp == (MaxTime \div TicksPerSecond) + REFRESH_TOKEN_EXPIRE

\* tokens that were not signed with JWT_SECRET_KEY over their own claims:
\* signed with another key, payload altered after signing, or claims missing
Forged ==
    {[sub |-> s, exp |-> x, sig |-> "bad", claims |-> {"sub", "exp"}] :
        s \in Emails, x \in {0, MaxExp}}
    \cup {[sub |-> s, exp |-> 0, sig |-> "bad", claims |-> {"sub"}] : s \in Emails}
    \cup {[sub |-> "", exp |-> x, sig |-> "bad", claims |-> {"exp"}] : x \in {0, MaxExp}}

Init ==
    /\ store = EmptyTable
    /\ uuids = 0
    /\ time = 0
    /\ held = NoToken
    /\ signed = EmptyTable
    /\ last = NoRequest
    /\ inflight = [w \in Workers |-> Idle]

\* POST /signup
Signup(email, password, salt) ==
    LET r == create_user(store, email, password, salt, uuids + 1)
        ok == r.resp.status = HTTP_200_OK
    IN
    /\ email \in DOMAIN store \/ uuids < MaxUuids
    /\ store' = r.db
    /\ uuids' = IF ok THEN uuids + 1 ELSE uuids
    /\ signed' = IF ok
                 THEN [e \in (DOMAIN signed) \cup {email} |->
                         IF e = email
                         THEN [password |-> password, id |-> r.resp.body.id]
                         ELSE signed[e]]
                 ELSE signed
    /\ last' = [op |-> "signup", email |-> email, password |-> password,
                before |-> get_data(store, email),
                resp |-> r.resp, ret |-> r.ret]
    /\ UNCHANGED <<time, held, inflight>>

\* mutant: a login with a wrong password deletes the row of that email
Login_deletes_on_failure(username, password, keep) ==
    LET resp == login(store, username, password, time) IN
    /\ store' = IF resp.status = HTTP_200_OK THEN store
                ELSE delete_data(store, username)
    /\ last' = [op |-> "login", email |-> username, password |-> password,
                resp |-> resp]
    /\ UNCHANGED <<uuids, time, held, signed, inflight>>

\* POST /login; the client keeps the access token, the refresh token or neither
Login(username, password, keep) ==
    LET resp == login(store, username, password, time)
        ok == resp.status = HTTP_200_OK
    IN
    /\ held' = IF ok /\ keep # "none"
               THEN [token |-> resp.body[keep],
                     uid |-> get_data(store, username).id]
               ELSE held
    /\ last' = [op |-> "login", email |-> username, password |-> password,
                resp |-> resp]
    /\ UNCHANGED <<store, uuids, time, signed, inflight>>

\* GET /me with a bearer token
WhoAmI(token) ==
    LET r == get_current_user(store, token, time) IN
    /\ last' = [op |-> "me", token |-> token, resp |-> r.resp,
                lookup |-> r.lookup]
    /\ UNCHANGED <<store, uuids, time, held, signed, inflight>>

\* POST /reset_email
ResetCredentials(email, new_email, password, new_password, salt) ==
    LET r == reset_email(store, email, new_email, password, new_password, salt)
        ok == r.resp.status = HTTP_200_OK
    IN
    /\ store' = r.db
    /\ signed' = IF ok
                 THEN [e \in (DOMAIN signed) \ {email, new_email} |-> signed[e]]
                 ELSE signed
    /\ last' = [op |-> "reset", email |-> email, new_email |-> new_email,
                password |-> password, new_password |-> new_password,
                before |-> get_data(store, email),
                target |-> get_data(store, new_email),
                resp |-> r.resp, ret |-> r.ret]
    /\ UNCHANGED <<uuids, time, held, inflight>>

\* the clock advances
Tick ==
    /\ time < MaxTime
    /\ time' = time + 1
    /\ last' = NoRequest
    /\ UNCHANGED <<store, uuids, held, signed, inflight>>

Next ==
    \/ \E e \in Emails, p \in Passwords, s \in Salts : Signup(e, p, s)
    \/ \E e \in Emails, p \in Passwords, k \in {"access_token", "refresh_token", "none"} :
          Login(e, p, k)
    \/ \E t \in Forged \cup (IF held = NoToken THEN {} ELSE {held.token}) : WhoAmI(t)
    \/ \E e \in Emails, ne \in Emails, p \in Passwords, np \in Passwords, s \in Salts :
          ResetCredentials(e, ne, p, np, s)
    \/ Tick

Spec == Init /\ [][Next]_vars

\* ------------------------------------------- one database call at a time
\* create_user up to its raise: database.get_data(data.email)
SignupGet(w, email, password) ==
    LET user == get_data(store, email) IN
    /\ inflight[w] = Idle
    /\ IF user # None
       THEN /\ last' = [op |-> "signup", email |-> email, password |-> password,
                        before |-> user, already |-> email \in DOMAIN signed,
                        resp |-> HTTPException(HTTP_400_BAD_REQUEST,
                                    "User with this email already exists"),
                        ret |-> None]
            /\ UNCHANGED inflight
       ELSE /\ last' = NoRequest
            /\ inflight' = [inflight EXCEPT ![w] =
                              [op |-> "signup", pc |-> "insert",
                               email |-> email, password |-> password]]
    /\ UNCHANGED <<store, uuids, time, held, signed>>

\* create_user from the user dict to the return: uuid4(), insert_data
SignupInsert(w, salt) ==
    LET rq == inflight[w]
        user == [email |-> rq.email,
                 password |-> get_hashed_password(rq.password, salt),
                 id |-> uuids + 1]
    IN
    /\ rq.op = "signup"
    /\ uuids < MaxUuids
    /\ store' = insert_data(store, rq.email, user)
    /\ uuids' = uuids + 1
    /\ signed' = [e \in (DOMAIN signed) \cup {rq.email} |->
                    IF e = rq.email
                    THEN [password |-> rq.password, id |-> user.id]
                    ELSE signed[e]]
    /\ last' = [op |-> "signup", email |-> rq.email, password |-> rq.password,
                before |-> None, already |-> rq.email \in DOMAIN signed,
                resp |-> UserOutResponse(user), ret |-> user]
    /\ inflight' = [inflight EXCEPT ![w] = Idle]
    /\ UNCHANGED <<time, held>>

\* reset_email up to its raises: database.get_data(email), verify_password
ResetGet(w, email, new_email, password, new_password) ==
    LET user == get_data(store, email)
        ok == user # None /\ verify_password(password, user.password)
    IN
    /\ inflight[w] = Idle
    /\ IF ~ok
       THEN /\ last' = [op |-> "reset", email |-> email,
                        new_email |-> new_email, password |-> password,
                        new_password |-> new_password, before |-> user,
                        target |-> get_data(store, new_email),
                        resp |-> HTTPException(HTTP_400_BAD_REQUEST,
                                    "Incorrect email or password"),
                        ret |-> None]
            /\ UNCHANGED inflight
       ELSE /\ last' = NoRequest
            /\ inflight' = [inflight EXCEPT ![w] =
                              [op |-> "reset", pc |-> "delete",
                               email |-> email, new_email |-> new_email,
                               password |-> password,
                               new_password |-> new_password, user |-> user]]
    /\ UNCHANGED <<store, uuids, time, held, signed>>

\* reset_email: database.delete_data(email)
ResetDelete(w) ==
    LET rq == inflight[w] IN
    /\ rq.op = "reset"
    /\ rq.pc = "delete"
    /\ store' = delete_data(store, rq.email)
    /\ signed' = [e \in (DOMAIN signed) \ {rq.email} |-> signed[e]]
    /\ inflight' = [inflight EXCEPT ![w] = [rq EXCEPT !.pc = "insert"]]
    /\ last' = NoRequest
    /\ UNCHANGED <<uuids, time, held>>

\* reset_email from the update of the user dict to the return: insert_data
ResetInsert(w, salt) ==
    LET rq == inflight[w]
        user == [email |-> rq.new_email,
                 password |-> get_hashed_password(rq.new_password, salt),
                 id |-> rq.user.id]
    IN
    /\ rq.op = "reset"
    /\ rq.pc = "insert"
    /\ store' = insert_data(store, rq.new_email, user)
    /\ signed' = [e \in (DOMAIN signed) \ {rq.new_email} |-> signed[e]]
    /\ last' = [op |-> "reset", email |-> rq.email,
                new_email |-> rq.new_email, password |-> rq.password,
                new_password |-> rq.new_password, before |-> rq.user,
                target |-> get_data(store, rq.new_email),
                resp |-> UserOutResponse(user), ret |-> user]
    /\ inflight' = [inflight EXCEPT ![w] = Idle]
    /\ UNCHANGED <<uuids, time, held>>

\* the process stops in the middle of a request: nothing more of it runs
Crash(w) ==
    /\ inflight[w] # Idle
    /\ last' = [op |-> "crash", request |-> inflight[w]]
    /\ inflight' = [inflight EXCEPT ![w] = Idle]
    /\ UNCHANGED <<store, uuids, time, held, signed>>

WorkerStep(w) ==
    \/ \E e \in Emails, p \in Passwords : SignupGet(w, e, p)
    \/ \E s \in Salts : SignupInsert(w, s)
    \/ \E e \in Emails, ne \in Emails, p \in Passwords, np \in Passwords :
          ResetGet(w, e, ne, p, np)
    \/ ResetDelete(w)
    \/ \E s \in Salts : ResetInsert(w, s)
    \/ Crash(w)

NextWorkers == \E w \in Workers : WorkerStep(w)

SpecWorkers == Init /\ [][NextWorkers]_vars

NextCrash == WorkerStep("w1")

SpecCrash == Init /\ [][NextCrash]_vars

\* ----------------------------------------------------------- properties
AlreadyExists == HTTPException(HTTP_400_BAD_REQUEST,
                               "User with this email already exists")

InvalidCredentials == HTTPException(HTTP_400_BAD_REQUEST,
                                    "Incorrect email or password")

TokenExpired == HTTPException(HTTP_401_UNAUTHORIZED, "Token expired")

TokenInvalid == HTTPException(HTTP_403_FORBIDDEN,
                              "Could not validate credentials")

\* the last request presented the token the client holds from a login
PresentedHeld == last.op = "me" /\ held # NoToken /\ last.token = held.token

\* C1: a signup for an email that already has a row fails with AlreadyExists
\* (400), whatever the password, and the row of that email is left as it was
C1_SignupExistingFails ==
    (last.op = "signup" /\ last.before # None) =>
        /\ last.resp = AlreadyExists
        /\ get_data(store, last.email) = last.before

C1_Witness ==
    /\ last.op = "signup"
    /\ last.before # None
    /\ ~verify_password(last.password, last.before.password)

\* C2: after a successful signup(email, password) and with no reset of that
\* email since, login(email, password) succeeds and returns an access token
\* and a refresh token, both non-empty, different from each other and both
\* with sub = email
C2_SignupThenLogin ==
    (/\ last.op = "login"
     /\ last.email \in DOMAIN signed
     /\ signed[last.email].password = last.password) =>
        /\ last.resp.status = HTTP_200_OK
        /\ last.resp.body.access_token # last.resp.body.refresh_token
        /\ last.resp.body.access_token.claims # {}
        /\ last.resp.body.refresh_token.claims # {}
        /\ last.resp.body.access_token.sub = last.email
        /\ last.resp.body.refresh_token.sub = last.email

C2_Witness ==
    /\ last.op = "login"
    /\ last.email \in DOMAIN signed
    /\ signed[last.email].password = last.password
    /\ last.resp.status = HTTP_200_OK

\* C3: GET /me with the token of a successful login, before the token expires
\* and with no reset in between, succeeds and returns the record whose id is
\* the id the signup of that email returned
C3_WhoAmIReturnsSignupId ==
    (/\ PresentedHeld
     /\ time < held.token.exp * TicksPerSecond
     /\ held.token.sub \in DOMAIN signed
     /\ signed[held.token.sub].id = held.uid) =>
        /\ last.resp.status = HTTP_200_OK
        /\ last.resp.body.id = signed[held.token.sub].id

\* C4: a token minted at time now with TTL t (exp = now + t) passes validation
\* at every time strictly before now + t, and is rejected as expired at every
\* time at or after now + t
C4_ExpiryBoundary ==
    PresentedHeld =>
        IF time < held.token.exp * TicksPerSecond
        THEN last.lookup
        ELSE last.resp = TokenExpired

\* C5: a token with a valid signature whose exp has passed is answered with
\* 401 "Token expired", never with 403
C5_ExpiredIsUnauthorized ==
    (PresentedHeld /\ held.token.exp * TicksPerSecond < time) =>
        last.resp = TokenExpired

\* C6: a token signed with another key, with an altered payload or without the
\* required claims is answered with 403, never 401, whatever exp it carries,
\* and the lookup of its subject is not reached
C6_ForgedIsForbidden ==
    (/\ last.op = "me"
     /\ \/ last.token.sig # "ok"
        \/ ~TokenPayloadValid(last.token)) =>
        /\ last.resp = TokenInvalid
        /\ ~last.lookup

C6_Witness ==
    /\ last.op = "me"
    /\ last.token.sig # "ok"
    /\ TokenPayloadValid(last.token)
    /\ last.token.exp * TicksPerSecond < time
    /\ last.resp.status = HTTP_403_FORBIDDEN

\* C7: after a successful reset with new_email # email the returned and the
\* stored record under new_email carry the id the user had before, the old
\* email has no row, the new email has the updated row, a login with the old
\* email and old password fails with InvalidCredentials and a login with the
\* new email and new password succeeds
C7_ResetMovesRecord ==
    (/\ last.op = "reset"
     /\ last.resp.status = HTTP_200_OK
     /\ last.new_email # last.email) =>
        /\ last.resp.body.id = last.before.id
        /\ last.resp.body.email = last.new_email
        /\ get_data(store, last.email) = None
        /\ get_data(store, last.new_email) = last.ret
        /\ get_data(store, last.new_email).id = last.before.id
        /\ login(store, last.email, last.password, time) = InvalidCredentials
        /\ login(store, last.new_email, last.new_password, time).status
              = HTTP_200_OK

C7_Witness ==
    /\ last.op = "reset"
    /\ last.resp.status = HTTP_200_OK
    /\ last.new_email # last.email
    /\ last.new_password # last.password

\* C8: login and reset answer an email that is not in the table exactly as
\* they answer an email that is in the table with a wrong password: the same
\* status (400) and the same message
C8_SameFailure ==
    /\ \A e1 \in Emails, e2 \in Emails, p \in Passwords :
         (/\ get_data(store, e1) = None
          /\ get_data(store, e2) # None
          /\ ~verify_password(p, get_data(store, e2).password)) =>
            /\ login(store, e1, p, time) = login(store, e2, p, time)
            /\ \A ne \in Emails, np \in Passwords, s \in Salts :
                 reset_email(store, e1, ne, p, np, s).resp
                    = reset_email(store, e2, ne, p, np, s).resp
    /\ (last.op \in {"login", "reset"} /\ last.resp.status # HTTP_200_OK) =>
          last.resp = InvalidCredentials

C8_Witness ==
    /\ last.op = "login"
    /\ last.resp = InvalidCredentials
    /\ get_data(store, last.email) = None
    /\ \E e2 \in Emails :
         /\ get_data(store, e2) # None
         /\ ~verify_password(last.password, get_data(store, e2).password)

\* C9: a success response of signup, whoAmI and reset holds the fields email
\* and id only, and no response holds the password hash of the record the
\* handler returns
C9_NoHashInResponse ==
    /\ (last.op \in {"signup", "me", "reset"}
          /\ last.resp.status = HTTP_200_OK) =>
            DOMAIN last.resp.body = {"email", "id"}
    /\ last # NoRequest => "password" \notin DOMAIN last.resp.body

C9_Witness ==
    /\ last.op \in {"signup", "reset"}
    /\ last.resp.status = HTTP_200_OK
    /\ "password" \in DOMAIN last.ret
    /\ last.ret.password = get_hashed_password(
            IF last.op = "signup" THEN last.password ELSE last.new_password,
            "salt1")

\* C10: a login or a whoAmI, successful or not, leaves the table as it was
C10_LoginAndWhoAmIReadOnly ==
    [][last'.op \in {"login", "me"} => store' = store]_vars

C10_Witness ==
    /\ last.op = "login"
    /\ last.resp.status # HTTP_200_OK
    /\ last.email \in DOMAIN store

UserNotFound == HTTPException(HTTP_404_NOT_FOUND, "Could not find user")

\* the ids of the rows of the table
StoredIds == {get_data(store, e).id : e \in DOMAIN store}

\* C11: every email of the table has one row, the email member of that row is
\* the key it is stored under, every stored id is an id a signup assigned, and
\* a reset carries the id of the row it read over to the row it writes
C11_KeyAndIdInvariant ==
    /\ \A e \in DOMAIN store :
         /\ get_data(store, e).email = e
         /\ get_data(store, e).id \in 1..uuids
    /\ \A e \in DOMAIN signed : get_data(store, e).id = signed[e].id
    /\ (last.op = "reset" /\ last.resp.status = HTTP_200_OK) =>
          /\ last.resp.body.id = last.before.id
          /\ get_data(store, last.new_email).id = last.before.id
          /\ get_data(store, last.new_email).email = last.new_email

C11_Witness ==
    /\ last.op = "reset"
    /\ last.resp.status = HTTP_200_OK
    /\ last.new_email # last.email
    /\ get_data(store, last.new_email).id = last.before.id
    /\ uuids = 2

\* C12: GET /me with a token that passes the signature and expiry checks and
\* whose subject has no row in the table is answered 404 "Could not find user"
C12_MissingSubjectIsNotFound ==
    (/\ PresentedHeld
     /\ last.lookup
     /\ get_data(store, held.token.sub) = None) =>
        last.resp = UserNotFound

\* C13: a reset whose new_email is the email of another existing user is not
\* refused: it succeeds and replaces that user's row, after which the other
\* user's id is under no key and the resetting user's id is under new_email
C13_ResetOverwritesOtherUser ==
    (/\ last.op = "reset"
     /\ last.new_email # last.email
     /\ last.before # None
     /\ verify_password(last.password, last.before.password)
     /\ last.target # None) =>
        /\ last.resp.status = HTTP_200_OK
        /\ last.target.id # last.before.id
        /\ last.target.id \notin StoredIds
        /\ get_data(store, last.new_email).id = last.before.id

C13_Witness ==
    /\ last.op = "reset"
    /\ last.new_email # last.email
    /\ last.resp.status = HTTP_200_OK
    /\ last.target # None

\* C14 as stated: a reset with new_email = email leaves one row under that
\* email, with the id it had and the hash of new_password, so a login with
\* new_password succeeds and a login with the old password fails
C14_SameEmailReset ==
    (/\ last.op = "reset"
     /\ last.resp.status = HTTP_200_OK
     /\ last.new_email = last.email) =>
        /\ get_data(store, last.email).id = last.before.id
        /\ verify_password(last.new_password,
                           get_data(store, last.email).password)
        /\ login(store, last.email, last.new_password, time).status
              = HTTP_200_OK
        /\ login(store, last.email, last.password, time) = InvalidCredentials

\* C14 amended: the login with the old password fails when new_password is
\* not the old password
C14_SameEmailResetAmended ==
    (/\ last.op = "reset"
     /\ last.resp.status = HTTP_200_OK
     /\ last.new_email = last.email) =>
        /\ get_data(store, last.email).id = last.before.id
        /\ get_data(store, last.email).email = last.email
        /\ verify_password(last.new_password,
                           get_data(store, last.email).password)
        /\ login(store, last.email, last.new_password, time).status
              = HTTP_200_OK
        /\ last.new_password # last.password =>
              login(store, last.email, last.password, time) = InvalidCredentials

C14_Witness ==
    /\ last.op = "reset"
    /\ last.resp.status = HTTP_200_OK
    /\ last.new_email = last.email
    /\ last.new_password # last.password

\* C16: a signup that fails with AlreadyExists and a reset that fails with
\* InvalidCredentials leave the table as it was
C16_FailuresWriteNothing ==
    [][(last'.op \in {"signup", "reset"} /\ last'.resp.status # HTTP_200_OK)
          => store' = store]_vars

C16_Witness ==
    /\ last.op = "reset"
    /\ last.resp = InvalidCredentials
    /\ last.before # None

CrashedBetweenDeleteAndInsert ==
    /\ last.op = "crash"
    /\ last.request.op = "reset"
    /\ last.request.pc = "insert"

\* C15 as stated: when a reset stops after the delete under email and before
\* the insert under new_email, the user's id is under no key and a login
\* fails for the old and for the new credentials
C15_CrashLosesUser ==
    CrashedBetweenDeleteAndInsert =>
        /\ last.request.user.id \notin StoredIds
        /\ get_data(store, last.request.email) = None
        /\ login(store, last.request.email, last.request.password, time)
              = InvalidCredentials
        /\ login(store, last.request.new_email, last.request.new_password, time)
              = InvalidCredentials

\* C15 amended: the login with the new credentials fails unless new_email is
\* the email of another existing user whose password is new_password
C15_CrashLosesUserAmended ==
    CrashedBetweenDeleteAndInsert =>
        /\ last.request.user.id \notin StoredIds
        /\ get_data(store, last.request.email) = None
        /\ login(store, last.request.email, last.request.password, time)
              = InvalidCredentials
        /\ \/ login(store, last.request.new_email,
                    last.request.new_password, time) = InvalidCredentials
           \/ /\ last.request.new_email # last.request.email
              /\ get_data(store, last.request.new_email) # None
              /\ get_data(store, last.request.new_email).id
                    # last.request.user.id
              /\ verify_password(last.request.new_password,
                    get_data(store, last.request.new_email).password)

C15_Witness ==
    /\ CrashedBetweenDeleteAndInsert
    /\ last.request.new_email # last.request.email
    /\ get_data(store, last.request.new_email) = None
    /\ StoredIds = {}

\* C17: under any interleaving of the requests, no two rows of the table
\* carry the same id
C17_IdsUnique ==
    \A e1 \in DOMAIN store, e2 \in DOMAIN store :
        e1 # e2 => get_data(store, e1).id # get_data(store, e2).id

\* C18: of the signups of one email, with no reset of that email in between,
\* at most one returns success, and the id a signup returned stays the id
\* stored under that email
C18_OneSignupPerEmail ==
    /\ (last.op = "signup" /\ last.resp.status = HTTP_200_OK) => ~last.already
    /\ \A e \in DOMAIN signed :
         get_data(store, e) # None => get_data(store, e).id = signed[e].id

====
